---- MODULE Spec2Model ----
(***************************************************************************)
(* Restyle pipeline of theathre.py: the batch driver (__main__), one       *)
(* process_image call per enumerated path, and inside it the retry loop    *)
(* and the poll loop of generate_stylized_image, followed by               *)
(* save_image_from_url.  The remote API, the file system and the clock are *)
(* the environment: every response, raised exception and timestamp is an   *)
(* input drawn by the action that makes the call.                          *)
(***************************************************************************)
EXTENDS Integers, Sequences, FiniteSets, TLC

\* ---------------------------------------------------------------- bounds
\* largest max_retries argument explored (the function accepts any value)
MaxRetriesArg == 1
\* largest number of files in the input directory
MaxFiles == 2
\* largest value of int(time.time()) relative to the start of the run
MaxClock == 1

\* largest number of files in the directory rename_theatre_files works on
MaxRenFiles == 3
\* number of successive runs of rename_theatre_files.py explored
MaxRuns == 2

\* ------------------------------------------------------ program constants
\* theathre.py:83
max_polls == 20

input_dir == "input_theatre"
output_dir == "output_theatre"

\* theathre.py:179
image_extensions == <<".jpg", ".jpeg", ".png", ".bmp", ".tiff", ".webp">>

\* ------------------------------------------------------------ environment
\* File names are a stem and the suffix from the last dot on (what
\* os.path.splitext separates).  The universe holds an image, the same stem
\* with an upper-case suffix, and a file that is no image.
FileUniverse ==
    { [stem |-> "a", ext |-> ".jpg"],
      [stem |-> "a", ext |-> ".JPG"],
      [stem |-> "n", ext |-> ".txt"] }

\* str.upper on the entries of image_extensions (theathre.py:184)
Upper(e) ==
    CASE e = ".jpg"  -> ".JPG"
      [] e = ".jpeg" -> ".JPEG"
      [] e = ".png"  -> ".PNG"
      [] e = ".bmp"  -> ".BMP"
      [] e = ".tiff" -> ".TIFF"
      [] e = ".webp" -> ".WEBP"
      [] OTHER       -> e

\* str.lower, as os.path.normcase applies it on a case-folding platform
Lower(e) ==
    CASE e \in {".JPG", ".Jpg"}   -> ".jpg"
      [] e \in {".JPEG"}          -> ".jpeg"
      [] e \in {".PNG", ".Png"}   -> ".png"
      [] e \in {".BMP"}           -> ".bmp"
      [] e \in {".TIFF"}          -> ".tiff"
      [] e \in {".WEBP"}          -> ".webp"
      [] OTHER                    -> e

\* fnmatch of the pattern '*<pat>' against a file name: glob compares the
\* normcased name with the normcased pattern; normcase is the identity on a
\* POSIX build and lower-cases on a case-folding build.
GlobMatch(fold, f, pat) ==
    IF fold THEN Lower(f.ext) = Lower(pat) ELSE f.ext = pat

\* os.path.join(input_dir, name) and os.path.basename of it
Join(d, f) == [dir |-> d, name |-> f]
Basename(p) == p.name

\* os.path.splitext(image_filename)
Splitext(f) == <<f.stem, f.ext>>

\* mutant: the extension is left out
OutputFilenameNoExt(f, ts) ==
    <<Splitext(f)[1], "_stylized_", ts, "">>

\* theathre.py:153   f"{base_name}_stylized_{timestamp}{ext}"
OutputFilename(f, ts) ==
    <<Splitext(f)[1], "_stylized_", ts, Splitext(f)[2]>>

\* mutant: only None is falsy (`is not None` in place of truthiness)
TruthyNotNone(x) == x # "none"

\* Python truthiness of the values the code tests with `if x` / `if not x`:
\* None and the empty string are falsy.
Truthy(x) == x \notin {"none", "empty"}

\* mutant: the id test is missing
HasIdAlways(id) == TRUE

\* theathre.py:76   if not request_id
HasId(id) == Truthy(id)

\* mutant: one iteration too many
RetryLoopOffByOne(r, m) == r <= m + 1

\* mutant: strict comparison
RetryLoopStrict(r, m) == r < m

\* theathre.py:41   while retries <= max_retries
RetryLoopCond(r, m) == r <= m

\* mutant: one poll too many
PollLoopOffByOne(c) == c <= max_polls

\* theathre.py:85   while poll_count < max_polls
PollLoopCond(c) == c < max_polls

\* mutant: "Pending" is not in the list
InProgressNoPending(st) == st \in {"Processing", "Queued"}

\* theathre.py:110  status not in ["Processing", "Queued", "Pending"]
InProgress(st) == st \in {"Processing", "Queued", "Pending"}

\* theathre.py:101
IsReady(st) == st = "Ready"

\* mutant: only 404 is taken as a failure
DownloadOkNot404(code) == code # 404

\* theathre.py:132
DownloadOk(code) == code = 200

\* ------------------------------------------------------------------ state
VARIABLES
    caseFold,       \* the build's glob folds case (os.path.normcase lower-cases)
    dir,            \* files in input_dir
    max_retries,    \* the max_retries argument
    counting,       \* the run keeps the per-call total of status queries
    input_images,   \* list of paths (theathre.py:180)
    idx,            \* position of the for loop (theathre.py:195), 1-based
    results,        \* dict name -> bool, in insertion order (theathre.py:194)
    outdir,         \* file names written into output_dir
    clock,          \* int(time.time())
    pc,             \* control position
    retries,        \* theathre.py:39
    poll_count,     \* theathre.py:82
    request_id,     \* theathre.py:75
    encoded,        \* input_image_base64 of the current attempt
    status,         \* status of the last status response ("unset": no query yet
                    \* in this call, "raise": the query raised)
    sample,         \* result.sample of the last status response
    image_url,      \* return value of generate_stylized_image
    lastEnd,        \* how the latest attempt ended
    dlCode,         \* status_code of the download (-1: none yet, 0: it raised)
    attempts,       \* loop bodies entered in this call
    submits,        \* submit requests issued in this call
    attemptQueries, \* status queries issued in this attempt
    queries,        \* status queries issued in this call (kept when counting)
    slept,          \* time.sleep(1.5) ran since the last status query
    downloads,      \* result downloads issued in this call
    written,        \* output files written in this call
    matched,        \* how far the call's status responses follow Script
    raised,         \* the latest network call of this call raised
    idSeen,         \* a submit response of this call carried an id
    readySeen,      \* a status response of this call said Ready
    processed,      \* paths process_image was called for, in call order
    stored,         \* number of results[img_name] = ... assignments made
    noReadyCalls,   \* positions of input_images whose call never saw Ready
    reported,       \* the final tally was printed
    successful,     \* theathre.py:205
    failures,       \* theathre.py:210
    \* rename_theatre_files.py
    rexists,        \* output_theatre exists
    rdir,           \* names of the files in it
    rfiles,         \* files (rename_theatre_files.py:14), as names
    ri,             \* position of the for loop (rename_theatre_files.py:17)
    renamed_count,  \* rename_theatre_files.py:16
    rpc,            \* control position of the script
    run,            \* which run of the script this is
    rstart,         \* the directory as this run found it
    rerrs,          \* os.rename calls of this run that raised
    rprev,          \* end of the previous run: directory, count, errors
    \* contour_generator.py
    cInput,         \* what input.png is: absent, unreadable or an image
    threshold1,     \* contour_generator.py:14
    threshold2,     \* contour_generator.py:14
    blur_kernel_size, \* contour_generator.py:14
    cpc,            \* control position of the script
    cError,         \* the exception in flight or reported
    cProcessed,     \* processing steps done on the image
    cOut,           \* what contour_output.png is
    cOut0,          \* what it was before the run
    cShown,         \* the figure has been displayed
    cExit           \* how the script ended

callVars == <<retries, poll_count, request_id, encoded, status, sample, image_url,
              lastEnd, dlCode, attempts, submits, attemptQueries, slept,
              downloads, written, matched, raised, idSeen, readySeen, queries>>
renVars == <<rexists, rdir, rfiles, ri, renamed_count, rpc, run, rstart, rerrs, rprev>>
ctrVars == <<cInput, threshold1, threshold2, blur_kernel_size, cpc, cError, cProcessed,
            cOut, cOut0, cShown, cExit>>
toolVars == <<renVars, ctrVars>>
envVars == <<caseFold, dir, max_retries, counting, toolVars>>
mainVars == <<input_images, idx, results, outdir, noReadyCalls, reported,
              successful, failures>>
histVars == <<processed, stored>>
vars == <<envVars, mainVars, histVars, callVars, clock, pc>>
pipeVars == <<dir, max_retries, counting, mainVars, histVars, callVars, clock, pc>>

\* the poll sequence of the happy-path scenario
Script == <<"Queued", "Processing", "Ready">>

\* ------------------------------------------------------------- operations
\* the glob patterns in the order theathre.py:182-184 issues them
Patterns ==
    [i \in 1..(2 * Len(image_extensions)) |->
        IF i % 2 = 1 THEN image_extensions[(i + 1) \div 2]
                     ELSE Upper(image_extensions[i \div 2])]

\* glob.glob(os.path.join(input_dir, '*<pat>')): the matching paths
Glob(fold, d, pat) == { Join(input_dir, f) : f \in {g \in d : GlobMatch(fold, g, pat)} }

\* glob returns its matches in directory order, which is arbitrary
Orderings(S) ==
    { s \in [1..Cardinality(S) -> S] :
        \A i, j \in 1..Cardinality(S) : i # j => s[i] # s[j] }

\* theathre.py:180-184: the lists input_images can be, patterns k.. onward
RECURSIVE Enumerations(_, _, _)
Enumerations(fold, d, k) ==
    IF k > Len(Patterns) THEN { <<>> }
    ELSE { p \o rest : p \in Orderings(Glob(fold, d, Patterns[k])),
                       rest \in Enumerations(fold, d, k + 1) }

\* dict assignment results[name] = v: a new key is appended, an existing key
\* keeps its position and takes the new value
HasKey(r, name) == \E i \in 1..Len(r) : r[i].name = name
Put(r, name, v) ==
    IF HasKey(r, name)
    THEN [i \in 1..Len(r) |-> IF r[i].name = name THEN [name |-> name, ok |-> v] ELSE r[i]]
    ELSE Append(r, [name |-> name, ok |-> v])
Get(r, name) == r[CHOOSE i \in 1..Len(r) : r[i].name = name].ok

\* theathre.py:205   sum(1 for success in results.values() if success)
CountSuccessful(r) == Cardinality({ i \in 1..Len(r) : r[i].ok })

\* mutant: the `not` is missing
IsFailureInverted(e) == e.ok

\* theathre.py:210   [name for name, success in results.items() if not success]
IsFailure(e) == ~e.ok
FailureEntries(r) == SelectSeq(r, IsFailure)
FailureNames(r) == [i \in 1..Len(FailureEntries(r)) |-> FailureEntries(r)[i].name]

\* the image the for loop is at, and its base name (theathre.py:196, 38, 144)
img_path == input_images[idx]
image_filename == Basename(img_path)

\* values of a call's locals before the call starts
CallReset ==
    /\ retries' = 0
    /\ poll_count' = 0
    /\ request_id' = "none"
    /\ encoded' = "none"
    /\ status' = "unset"
    /\ sample' = "unset"
    /\ image_url' = "none"
    /\ lastEnd' = "none"
    /\ dlCode' = -1
    /\ attempts' = 0
    /\ submits' = 0
    /\ attemptQueries' = 0
    /\ slept' = FALSE
    /\ downloads' = 0
    /\ written' = 0
    /\ matched' = 0
    /\ raised' = FALSE
    /\ idSeen' = FALSE
    /\ readySeen' = FALSE
    /\ queries' = 0

\* directories a build can hold: a case-folding file system keeps no two
\* names that differ in case only
SameFolded(f, g) == f.stem = g.stem /\ Lower(f.ext) = Lower(g.ext)
Directories(fold) ==
    { d \in SUBSET FileUniverse :
        /\ Cardinality(d) <= MaxFiles
        /\ fold => \A f, g \in d : SameFolded(f, g) => f = g }

\* the renamer before its first statement
RenIdle ==
    /\ rexists = FALSE
    /\ rdir = {}
    /\ rfiles = <<>>
    /\ ri = 1
    /\ renamed_count = 0
    /\ rpc = "idle"
    /\ run = 1
    /\ rstart = {}
    /\ rerrs = 0
    /\ rprev = [dir |-> {}, count |-> 0, errs |-> 0]

\* the contour generator before its first statement
CtrIdle ==
    /\ cInput = "absent"
    /\ threshold1 = 100
    /\ threshold2 = 200
    /\ blur_kernel_size = 5
    /\ cpc = "idle"
    /\ cError = "none"
    /\ cProcessed = 0
    /\ cOut = "none"
    /\ cOut0 = "none"
    /\ cShown = FALSE
    /\ cExit = "none"

\* the other scripts of the repository have not been started
ToolsIdle == RenIdle /\ CtrIdle

\* state of the pipeline script before its first statement
PipelineStart ==
    /\ input_images = <<>>
    /\ idx = 1
    /\ results = <<>>
    /\ outdir = {}
    /\ clock = 0
    /\ pc = "enumerate"
    /\ retries = 0
    /\ poll_count = 0
    /\ request_id = "none"
    /\ encoded = "none"
    /\ status = "unset"
    /\ sample = "unset"
    /\ image_url = "none"
    /\ lastEnd = "none"
    /\ dlCode = -1
    /\ attempts = 0
    /\ submits = 0
    /\ attemptQueries = 0
    /\ slept = FALSE
    /\ downloads = 0
    /\ written = 0
    /\ matched = 0
    /\ raised = FALSE
    /\ idSeen = FALSE
    /\ readySeen = FALSE
    /\ queries = 0
    /\ processed = <<>>
    /\ stored = 0
    /\ noReadyCalls = {}
    /\ reported = FALSE
    /\ successful = 0
    /\ failures = <<>>

\* the batch script on any directory, for any max_retries
Init ==
    /\ caseFold \in BOOLEAN
    /\ dir \in Directories(caseFold)
    /\ max_retries \in 0..MaxRetriesArg
    /\ counting = FALSE
    /\ PipelineStart
    /\ ToolsIdle

\* the batch script on a directory holding one image, every status query of
\* a call counted
InitCall ==
    /\ caseFold = FALSE
    /\ dir = { [stem |-> "a", ext |-> ".jpg"] }
    /\ max_retries \in 0..MaxRetriesArg
    /\ counting = TRUE
    /\ PipelineStart
    /\ ToolsIdle

\* theathre.py:178-194: enumerate the input directory
Enumerate ==
    /\ pc = "enumerate"
    /\ \E s \in Enumerations(caseFold, dir, 1) :
          /\ input_images' = s
          /\ pc' = IF s = <<>> THEN "done" ELSE "for"
    /\ idx' = 1
    /\ results' = <<>>
    /\ UNCHANGED <<envVars, histVars, outdir, noReadyCalls, reported, successful, failures,
                   callVars, clock>>

\* theathre.py:195-198, 142-147, 38-39: the for loop takes the next path and
\* calls process_image, which calls generate_stylized_image
StartImage ==
    /\ pc = "for"
    /\ idx <= Len(input_images)
    /\ CallReset
    /\ processed' = Append(processed, img_path)
    /\ pc' = "while"
    /\ UNCHANGED <<envVars, stored, mainVars, clock>>

\* theathre.py:204-214: the for loop is over; tally and failure list
Report ==
    /\ pc = "for"
    /\ idx > Len(input_images)
    /\ successful' = CountSuccessful(results)
    /\ failures' = FailureNames(results)
    /\ reported' = TRUE
    /\ pc' = "done"
    /\ UNCHANGED <<envVars, histVars, input_images, idx, results, outdir, noReadyCalls,
                   callVars, clock>>

\* ---------------------------------------------------------- environment inputs
\* image_to_base64: None when open/read raises, "" for a zero-length file
EncodeOutcomes == {"none", "empty", "b64"}
\* requests.post(...).json() then .get("id"): the call raises, the id is
\* absent (None), the id is an empty string, or a job id
SubmitOutcomes == {"raise", "none", "empty", "job1"}
\* status values a response can carry ("none": no status field)
StatusValues == {"Ready", "Processing", "Queued", "Pending", "Error", "none"}
\* result.sample of a response: absent (None), result is null (the second
\* .get raises AttributeError), an empty string, or a URL
SampleValues == {"none", "null_result", "empty", "u1", "u2"}
\* status responses: a Ready response with every sample value, an in-progress
\* one without a sample, any other with or without one
StatusResponses ==
    { r \in [status : StatusValues, sample : SampleValues] :
        /\ r.status \in {"Processing", "Queued", "Pending"} => r.sample = "none"
        /\ r.status # "Ready" => r.sample \in {"none", "u1"} }
\* response.status_code of the download; 0 stands for requests.get raising
DownloadOutcomes == {0, 200, 404, 500}

\* ------------------------------------------------------ generate_stylized_image
\* mutant: the failing path does not count against the budget
FailAttemptNoCount(how) ==
    /\ retries' = retries
    /\ lastEnd' = how
    /\ pc' = "while"

\* theathre.py:52-53, 78-79, 117, 121: an attempt ends without a URL
FailAttempt(how) ==
    /\ retries' = retries + 1
    /\ lastEnd' = how
    /\ pc' = "while"

\* mutant: a failed image ends the batch (no handler around the call)
RecordResultAbort(v) ==
    /\ results' = Put(results, image_filename, v)
    /\ stored' = stored + 1
    /\ noReadyCalls' = IF readySeen THEN noReadyCalls ELSE noReadyCalls \cup {idx}
    /\ idx' = idx + 1
    /\ pc' = IF v THEN "for" ELSE "done"

\* theathre.py:199, 202 and the loop's advance: the image's outcome is stored
RecordResult(v) ==
    /\ results' = Put(results, image_filename, v)
    /\ stored' = stored + 1
    /\ noReadyCalls' = IF readySeen THEN noReadyCalls ELSE noReadyCalls \cup {idx}
    /\ idx' = idx + 1
    /\ pc' = "for"

\* theathre.py:41-53: loop test passes, optional jitter sleep, encode
AttemptBegin ==
    /\ pc = "while"
    /\ RetryLoopCond(retries, max_retries)
    /\ attempts' = attempts + 1
    /\ attemptQueries' = 0
    /\ \E enc \in EncodeOutcomes :
          /\ encoded' = enc
          /\ IF ~Truthy(enc)
             THEN FailAttempt("encode")
             ELSE /\ pc' = "submit"
                  /\ UNCHANGED <<retries, lastEnd>>
    /\ UNCHANGED <<envVars, histVars, mainVars, clock, poll_count, request_id, status, sample,
                   image_url, dlCode, submits, slept, downloads, written,
                   matched, raised, idSeen, readySeen, queries>>

\* theathre.py:41, 123-124, 147, 156-158, 199: loop test fails, the call
\* returns None, process_image returns False and the driver stores it
GiveUp ==
    /\ pc = "while"
    /\ ~RetryLoopCond(retries, max_retries)
    /\ image_url' = "none"
    /\ RecordResult(FALSE)
    /\ UNCHANGED <<envVars, processed, input_images, outdir, reported, successful, failures, clock,
                   retries, poll_count, request_id, encoded, status, sample, lastEnd,
                   dlCode, attempts, submits, attemptQueries, slept, downloads,
                   written, matched, raised, idSeen, readySeen, queries>>

\* theathre.py:55-83, 119-121: submit request and the id test
Submit ==
    /\ pc = "submit"
    /\ submits' = submits + 1
    /\ \E r \in SubmitOutcomes :
          /\ raised' = (r = "raise")
          /\ IF r = "raise"
             THEN /\ FailAttempt("exception")
                  /\ UNCHANGED <<request_id, poll_count, idSeen>>
             ELSE /\ request_id' = r
                  /\ idSeen' = (idSeen \/ r \notin {"none", "empty"})
                  /\ IF ~HasId(r)
                     THEN /\ FailAttempt("noid")
                          /\ UNCHANGED poll_count
                     ELSE /\ poll_count' = 0
                          /\ pc' = "poll"
                          /\ UNCHANGED <<retries, lastEnd>>
    /\ UNCHANGED <<envVars, histVars, mainVars, clock, encoded, status, sample, image_url, dlCode,
                   attempts, attemptQueries, slept, downloads, written,
                   matched, readySeen, queries>>

\* theathre.py:85-86: poll loop test passes, sleep
PollSleep ==
    /\ pc = "poll"
    /\ PollLoopCond(poll_count)
    /\ slept' = TRUE
    /\ pc' = "query"
    /\ UNCHANGED <<envVars, histVars, mainVars, clock, retries, poll_count, request_id, encoded,
                   status, sample, image_url, lastEnd, dlCode, attempts, submits,
                   attemptQueries, downloads, written, matched, raised, idSeen, readySeen, queries>>

\* theathre.py:85, 116-117: poll loop test fails, fall through to retry accounting
PollTimeout ==
    /\ pc = "poll"
    /\ ~PollLoopCond(poll_count)
    /\ FailAttempt("timeout")
    /\ UNCHANGED <<envVars, histVars, mainVars, clock, poll_count, request_id, encoded, status,
                   sample, image_url, dlCode, attempts, submits,
                   attemptQueries, slept, downloads, written, matched, raised, idSeen,
                   readySeen, queries>>

\* the responses of the call's first attempt so far follow Script, the Ready
\* one carrying a URL
Follows(m, n, r) ==
    IF /\ m = n
       /\ attempts = 1
       /\ m < Len(Script)
       /\ r.status = Script[m + 1]
       /\ (r.status = "Ready" => Truthy(r.sample) /\ r.sample # "null_result")
    THEN m + 1 ELSE -1

\* theathre.py:88-114, 117, 119-121: status query and the three-way branch
PollQuery ==
    /\ pc = "query"
    /\ attemptQueries' = attemptQueries + 1
    /\ queries' = (IF counting THEN queries + 1 ELSE queries)
    /\ slept' = FALSE
    /\ \/ /\ status' = "raise"
          /\ raised' = TRUE
          /\ sample' = "none"
          /\ matched' = -1
          /\ FailAttempt("exception")
          /\ UNCHANGED <<poll_count, image_url, readySeen>>
       \/ \E r \in StatusResponses :
            /\ status' = r.status
            /\ raised' = FALSE
            /\ sample' = r.sample
            /\ matched' = Follows(matched, attemptQueries, r)
            /\ readySeen' = (readySeen \/ r.status = "Ready")
            /\ IF IsReady(r.status)
               THEN IF r.sample = "null_result"
                    THEN /\ FailAttempt("exception")
                         /\ UNCHANGED <<poll_count, image_url>>
                    ELSE IF Truthy(r.sample)
                    THEN /\ image_url' = r.sample
                         /\ lastEnd' = "success"
                         /\ pc' = "download"
                         /\ UNCHANGED <<poll_count, retries>>
                    ELSE /\ FailAttempt("ready_nourl")
                         /\ UNCHANGED <<poll_count, image_url>>
               ELSE IF ~InProgress(r.status)
                    THEN /\ FailAttempt("status")
                         /\ UNCHANGED <<poll_count, image_url>>
                    ELSE /\ poll_count' = poll_count + 1
                         /\ pc' = "poll"
                         /\ UNCHANGED <<retries, lastEnd, image_url>>
    /\ UNCHANGED <<envVars, histVars, mainVars, clock, request_id, encoded, dlCode, attempts,
                   submits, downloads, written, idSeen>>

\* theathre.py:149-155, 126-140, 199-202: the call returned a URL; timestamp,
\* download, write, and the driver stores the outcome (False when the
\* download raised)
Download ==
    /\ pc = "download"
    /\ downloads' = downloads + 1
    /\ \E ts \in clock..MaxClock, code \in DownloadOutcomes :
          /\ clock' = ts
          /\ dlCode' = code
          /\ raised' = (code = 0)
          /\ IF code # 0 /\ DownloadOk(code)
             THEN /\ outdir' = outdir \cup {OutputFilename(image_filename, ts)}
                  /\ written' = written + 1
                  /\ RecordResult(TRUE)
             ELSE /\ RecordResult(FALSE)
                  /\ UNCHANGED <<outdir, written>>
    /\ UNCHANGED <<envVars, processed, input_images, reported, successful, failures, retries,
                   poll_count, request_id, encoded, status, sample, image_url, lastEnd,
                   attempts, submits, attemptQueries, slept, matched, idSeen,
                   readySeen, queries>>

Next ==
    \/ Enumerate
    \/ StartImage
    \/ AttemptBegin
    \/ GiveUp
    \/ Submit
    \/ PollSleep
    \/ PollTimeout
    \/ PollQuery
    \/ Download
    \/ Report

Spec == Init /\ [][Next]_vars

\* one image, queries counted; the script is sequential and every network
\* call returns or raises, so a step that can be taken is taken
SpecCall == InitCall /\ [][Next]_vars /\ WF_vars(Next)

\* ================================================ rename_theatre_files.py
\* File names are sequences of characters.
UpperLetters == <<"A", "B", "C", "D", "E", "F", "G", "H", "I", "J", "K", "L", "M",
                  "N", "O", "P", "Q", "R", "S", "T", "U", "V", "W", "X", "Y", "Z">>
LowerLetters == <<"a", "b", "c", "d", "e", "f", "g", "h", "i", "j", "k", "l", "m",
                  "n", "o", "p", "q", "r", "s", "t", "u", "v", "w", "x", "y", "z">>
Digits == {"0", "1", "2", "3", "4", "5", "6", "7", "8", "9"}

\* str.lower of one character and of a name (re.IGNORECASE, os.path.normcase)
LowerChar(c) ==
    IF \E i \in 1..Len(UpperLetters) : UpperLetters[i] = c
    THEN LowerLetters[CHOOSE i \in 1..Len(UpperLetters) : UpperLetters[i] = c]
    ELSE c
FoldName(s) == [i \in 1..Len(s) |-> LowerChar(s[i])]

\* the literal parts of the pattern (rename_theatre_files.py:11) and of the
\* new name (rename_theatre_files.py:23)
PatPrefix == <<"s", "t", "a", "l", "l", "s", "_", "r">>
PatSuffix == <<".", "j", "p", "g">>
NewPrefix == <<"s", "t", "a", "l", "l", "s", "_", "w">>

\* the example of the docstring (rename_theatre_files.py:6-9): the name it
\* starts from and the name it promises
DocSource ==
    <<"S", "t", "a", "l", "l", "s", "-", "R", "2", "-", "p", "r", "e", "v", "i", "e", "w", "_", "s", "t", "y", "l", "i", "z", "e", "d", "_", "1", "7", "0", "0", "0", "0", "0", "0", "0", "0", ".", "j", "p", "g">>
DocTarget == <<"s", "t", "a", "l", "l", "s", "_", "r", "2", ".", "j", "p", "g">>

\* names the directory can hold
RenUniverse ==
    { 
      <<"s", "t", "a", "l", "l", "s", "_", "r", "2", ".", "j", "p", "g">>, 
      <<"S", "t", "a", "l", "l", "s", "_", "R", "2", "_", "x", ".", "j", "p", "g">>, 
      <<"s", "t", "a", "l", "l", "s", "_", "r", "0", "7", ".", "j", "p", "g">>, 
      <<"S", "T", "A", "L", "L", "S", "_", "R", "2", ".", "J", "P", "G">>, 
      <<"s", "t", "a", "l", "l", "s", "_", "w", "2", ".", "j", "p", "g">>, 
      <<"S", "t", "a", "l", "l", "s", "-", "R", "2", "-", "p", "r", "e", "v", "i", "e", "w", "_", "s", "t", "y", "l", "i", "z", "e", "d", "_", "1", "7", "0", "0", "0", "0", "0", "0", "0", "0", ".", "j", "p", "g">>, 
      <<"n", "o", "t", "e", "s", ".", "t", "x", "t">> }

\* glob '*.jpg' (rename_theatre_files.py:14): the name ends in .jpg, compared
\* after normcase on a case-folding build; '*' matches no leading dot
RenGlobMatch(fold, s) ==
    /\ Len(s) >= Len(PatSuffix)
    /\ s[1] # "."
    /\ LET tail == SubSeq(s, Len(s) - Len(PatSuffix) + 1, Len(s))
       IN IF fold THEN FoldName(tail) = PatSuffix ELSE tail = PatSuffix
RenGlob(fold, d) == { s \in d : RenGlobMatch(fold, s) }

\* (\d+) after the prefix: the index of the last digit of the longest run of
\* digits that starts at position k (k - 1 when s[k] is no digit)
RECURSIVE DigitEnd(_, _)
DigitEnd(s, k) ==
    IF k <= Len(s) /\ s[k] \in Digits THEN DigitEnd(s, k + 1) ELSE k - 1

\* pattern.match(filename): 'stalls_r', digits, anything, '.jpg', anchored at
\* the start only, letters compared without case
RegexMatch(s) ==
    /\ Len(s) >= Len(PatPrefix)
    /\ SubSeq(FoldName(s), 1, Len(PatPrefix)) = PatPrefix
    /\ DigitEnd(s, Len(PatPrefix) + 1) > Len(PatPrefix)
    /\ \E i \in (DigitEnd(s, Len(PatPrefix) + 1) + 1)..(Len(s) - Len(PatSuffix) + 1) :
          SubSeq(FoldName(s), i, i + Len(PatSuffix) - 1) = PatSuffix

\* match.group(1)
RowNumber(s) == SubSeq(s, Len(PatPrefix) + 1, DigitEnd(s, Len(PatPrefix) + 1))

\* mutant: the new name keeps the source prefix and grows the number
NewFilenameGrows(row) == PatPrefix \o row \o <<"0">> \o PatSuffix

\* rename_theatre_files.py:23   f"stalls_w{row_number}.jpg"
NewFilename(row) == NewPrefix \o row \o PatSuffix

\* mutant: the destination is never found
PathExistsNever(fold, d, s) == FALSE

\* os.path.exists(new_path): a case-folding file system finds a name that
\* differs in case only
PathExists(fold, d, s) ==
    IF fold THEN \E g \in d : FoldName(g) = FoldName(s) ELSE s \in d

\* directories a build can hold
RenDirectories(fold) ==
    { d \in SUBSET RenUniverse :
        /\ Cardinality(d) <= MaxRenFiles
        /\ fold => \A f, g \in d : FoldName(f) = FoldName(g) => f = g }

\* rename_theatre_files.py on any directory, present or not
InitRename ==
    /\ caseFold \in BOOLEAN
    /\ dir = {}
    /\ max_retries = 0
    /\ counting = FALSE
    /\ PipelineStart
    /\ rexists \in BOOLEAN
    /\ rdir \in (IF rexists THEN RenDirectories(caseFold) ELSE { {} })
    /\ rfiles = <<>>
    /\ ri = 1
    /\ renamed_count = 0
    /\ rpc = "start"
    /\ run = 1
    /\ rstart = rdir
    /\ rerrs = 0
    /\ rprev = [dir |-> {}, count |-> 0, errs |-> 0]
    /\ CtrIdle

\* rename_theatre_files.py:40-44: the directory is missing, the run is skipped
RenSkip ==
    /\ rpc = "start"
    /\ ~rexists
    /\ rpc' = "done"
    /\ UNCHANGED <<caseFold, pipeVars, ctrVars, rexists, rdir, rfiles, ri, renamed_count, run,
                   rstart, rerrs, rprev>>

\* rename_theatre_files.py:45-46, 10-16: compile the pattern, list the
\* .jpg files in directory order, reset the count
RenList ==
    /\ rpc = "start"
    /\ rexists
    /\ \E order \in Orderings(RenGlob(caseFold, rdir)) : rfiles' = order
    /\ ri' = 1
    /\ renamed_count' = 0
    /\ rpc' = "loop"
    /\ UNCHANGED <<caseFold, pipeVars, ctrVars, rexists, rdir, run, rstart, rerrs, rprev>>

\* rename_theatre_files.py:17-36: one iteration of the loop
RenStep ==
    /\ rpc = "loop"
    /\ ri <= Len(rfiles)
    /\ LET filename == rfiles[ri]
           new_filename == NewFilename(RowNumber(filename))
       IN IF ~RegexMatch(filename)
          THEN UNCHANGED <<rdir, renamed_count, rerrs>>
          ELSE IF PathExists(caseFold, rdir, new_filename)
          THEN UNCHANGED <<rdir, renamed_count, rerrs>>
          ELSE \/ /\ rdir' = (rdir \ {filename}) \cup {new_filename}
                  /\ renamed_count' = renamed_count + 1
                  /\ UNCHANGED rerrs
               \/ /\ rerrs' = rerrs + 1
                  /\ UNCHANGED <<rdir, renamed_count>>
    /\ ri' = ri + 1
    /\ UNCHANGED <<caseFold, pipeVars, ctrVars, rexists, rfiles, rpc, run, rstart, rprev>>

\* rename_theatre_files.py:38: the loop is over, the count is printed
RenFinish ==
    /\ rpc = "loop"
    /\ ri > Len(rfiles)
    /\ rpc' = "done"
    /\ UNCHANGED <<caseFold, pipeVars, ctrVars, rexists, rdir, rfiles, ri, renamed_count, run,
                   rstart, rerrs, rprev>>

\* the script is run again on the directory the last run left
RenAgain ==
    /\ rpc = "done"
    /\ run < MaxRuns
    /\ run' = run + 1
    /\ rprev' = [dir |-> rdir, count |-> renamed_count, errs |-> rerrs]
    /\ rstart' = rdir
    /\ rerrs' = 0
    /\ rpc' = "start"
    /\ UNCHANGED <<caseFold, pipeVars, ctrVars, rexists, rdir, rfiles, ri, renamed_count>>

NextRename ==
    \/ RenSkip
    \/ RenList
    \/ RenStep
    \/ RenFinish
    \/ RenAgain

SpecRename == InitRename /\ [][NextRename]_vars

\* ================================================== contour_generator.py
\* what input.png can be, and the arguments generate_contours can be given
\* (contour_generator.py:14 has the defaults 100, 200 and 5)
InputKinds == {"absent", "unreadable", "image"}
Thresholds1 == {0, 100}
Thresholds2 == {100, 200}
KernelSizes == {-1, 0, 3, 4, 5}

\* mutant: only a missing file counts as unread
ImreadNoneIfAbsent(input) == input = "absent"

\* contour_generator.py:27-28: cv2.imread returns None for a file that is
\* missing or cannot be decoded
ImreadNone(input) == input # "image"

\* contour_generator.py:35: cv2.GaussianBlur wants a positive odd kernel size
KernelOk(k) == k > 0 /\ k % 2 = 1

InitContour ==
    /\ caseFold = FALSE
    /\ dir = {}
    /\ max_retries = 0
    /\ counting = FALSE
    /\ PipelineStart
    /\ RenIdle
    /\ cInput \in InputKinds
    /\ threshold1 \in Thresholds1
    /\ threshold2 \in Thresholds2
    /\ blur_kernel_size \in KernelSizes
    /\ cpc = "start"
    /\ cError = "none"
    /\ cProcessed = 0
    /\ cOut \in {"none", "old"}
    /\ cOut0 = cOut
    /\ cShown = FALSE
    /\ cExit = "none"

\* contour_generator.py:27-29: read the image, raise when there is none
CtrRead ==
    /\ cpc = "start"
    /\ IF ImreadNone(cInput)
       THEN cpc' = "raised" /\ cError' = "FileNotFoundError"
       ELSE cpc' = "read" /\ UNCHANGED cError
    /\ UNCHANGED <<caseFold, pipeVars, renVars, cInput, threshold1, threshold2,
                   blur_kernel_size, cProcessed, cOut, cOut0, cShown, cExit>>

\* contour_generator.py:32: convert to grayscale
CtrGray ==
    /\ cpc = "read"
    /\ cpc' = "gray"
    /\ cProcessed' = cProcessed + 1
    /\ UNCHANGED <<caseFold, pipeVars, renVars, cInput, threshold1, threshold2,
                   blur_kernel_size, cError, cOut, cOut0, cShown, cExit>>

\* contour_generator.py:35: blur, which rejects a bad kernel size
CtrBlur ==
    /\ cpc = "gray"
    /\ IF KernelOk(blur_kernel_size)
       THEN cpc' = "blurred" /\ cProcessed' = cProcessed + 1 /\ UNCHANGED cError
       ELSE cpc' = "raised" /\ cError' = "cv2.error" /\ UNCHANGED cProcessed
    /\ UNCHANGED <<caseFold, pipeVars, renVars, cInput, threshold1, threshold2,
                   blur_kernel_size, cOut, cOut0, cShown, cExit>>

\* contour_generator.py:38-47: edges, contours, and the drawing of them
CtrDraw ==
    /\ cpc = "blurred"
    /\ cpc' = "drawn"
    /\ cProcessed' = cProcessed + 3
    /\ UNCHANGED <<caseFold, pipeVars, renVars, cInput, threshold1, threshold2,
                   blur_kernel_size, cError, cOut, cOut0, cShown, cExit>>

\* contour_generator.py:50-52: write contour_output.png; cv2.imwrite reports
\* a failure by its result, which the code does not look at
CtrWrite ==
    /\ cpc = "drawn"
    /\ \E ok \in BOOLEAN : cOut' = (IF ok THEN "new" ELSE cOut)
    /\ cpc' = "written"
    /\ UNCHANGED <<caseFold, pipeVars, renVars, cInput, threshold1, threshold2,
                   blur_kernel_size, cError, cProcessed, cOut0, cShown, cExit>>

\* contour_generator.py:55-70: show the two images and return
CtrShow ==
    /\ cpc = "written"
    /\ cShown' = TRUE
    /\ cpc' = "returned"
    /\ UNCHANGED <<caseFold, pipeVars, renVars, cInput, threshold1, threshold2,
                   blur_kernel_size, cError, cProcessed, cOut, cOut0, cExit>>

\* contour_generator.py:73-80: main has no handler, so the script ends with
\* the result or with the traceback of the exception
CtrMainEnd ==
    /\ cpc \in {"returned", "raised"}
    /\ cExit' = (IF cpc = "raised" THEN "traceback" ELSE "ok")
    /\ cpc' = "exited"
    /\ UNCHANGED <<caseFold, pipeVars, renVars, cInput, threshold1, threshold2,
                   blur_kernel_size, cError, cProcessed, cOut, cOut0, cShown>>

NextContour ==
    \/ CtrRead
    \/ CtrGray
    \/ CtrBlur
    \/ CtrDraw
    \/ CtrWrite
    \/ CtrShow
    \/ CtrMainEnd

SpecContour == InitContour /\ [][NextContour]_vars

\* ================================================================= claims
\* a generate_stylized_image call of the current image has returned
CallEnded == pc \in {"download", "for", "done"} /\ attempts > 0
\* the driver has stored the outcome of the call whose locals the state shows
CallRecorded == pc \in {"for", "done"} /\ idx > 1
\* base name of the image that call was for
lastName == Basename(input_images[idx - 1])
\* a status response that is Ready and carries a non-empty result.sample
Urls == {"u1", "u2"}
ReadyWithUrl == status = "Ready" /\ sample \in Urls
\* ways an attempt ends that are neither success nor an explicit error status
BudgetEnds == {"timeout", "encode", "noid", "exception", "ready_nourl"}

\* C1: every call ends in exactly one of success (a Ready response with a
\* non-empty result.sample), an explicit error status on its last attempt, or
\* exhaustion of the poll/retry budget; it returns a URL iff it ended in
\* success, and the URL is the one the Ready response carried.  A Ready
\* response with a URL always ends the call at once.
C1_TerminalState ==
    /\ ReadyWithUrl => lastEnd = "success" /\ image_url = sample
    /\ CallEnded =>
         LET success == lastEnd = "success" /\ ReadyWithUrl /\ retries <= max_retries
             errorStatus == lastEnd = "status" /\ retries = max_retries + 1
             exhausted == lastEnd \in BudgetEnds /\ retries = max_retries + 1
         IN /\ success \/ errorStatus \/ exhausted
            /\ ~(success /\ errorStatus) /\ ~(success /\ exhausted)
            /\ ~(errorStatus /\ exhausted)
            /\ (image_url # "none") <=> success
            /\ success => image_url = sample /\ image_url \in Urls

\* a call that succeeded on its retry, with the second URL
C1_Witness ==
    CallEnded /\ image_url = "u2" /\ retries = 1 /\ max_retries = 1

\* C2: when the tally is printed, successful + len(failures) equals
\* len(input_images).
C2_TallyAddsUp ==
    reported => successful + Len(failures) = Len(input_images)

\* C3 as stated: a re-submission (a submit after a failed attempt) happens
\* only while the incremented counter is strictly under max_retries.
C3_StrictlyUnder ==
    (pc = "submit" /\ retries > 0) => retries < max_retries

\* C3 amended: every failed attempt increments the counter by one; a
\* re-submission happens only while the counter is at most max_retries; once
\* the counter exceeds max_retries nothing more is submitted or queried and
\* the call returns None.
C3_AtMost ==
    /\ []((pc = "submit" /\ retries > 0) => retries <= max_retries)
    /\ [](retries > max_retries =>
             /\ pc \in {"while", "for", "done"}
             /\ (CallEnded => image_url = "none"))
    /\ [][(pc \in {"while", "submit", "poll", "query"} /\ pc' = "while")
             => retries' = retries + 1]_vars
    /\ [][submits' = submits + 1 => retries <= max_retries]_vars

\* a re-submission with the counter equal to max_retries
C3_Witness ==
    pc = "submit" /\ retries > 0 /\ retries = max_retries

\* C4: a call makes at most max_retries + 1 attempts, and returns None only
\* after exactly max_retries + 1 attempts, all failed.
C4_MaxRetries ==
    /\ attempts <= max_retries + 1
    /\ (CallEnded /\ image_url = "none") =>
          attempts = max_retries + 1 /\ retries = attempts

\* None returned after the initial attempt and one retry
C4_Witness ==
    CallEnded /\ image_url = "none" /\ max_retries = 1 /\ attempts = 2

\* C5: a submit response without an id (the request itself did not raise) ends
\* the attempt with no status query and adds exactly one to the retry counter; a call in which no submit
\* response carried an id issues no status query at all, and its image is
\* stored as failed.
C5_NoIdNoPoll ==
    /\ [][(pc = "submit" /\ submits' = submits + 1 /\ request_id' = "none"
              /\ ~raised')
             => /\ retries' = retries + 1
                /\ pc' = "while"
                /\ lastEnd' = "noid"
                /\ attemptQueries' = 0
                /\ status' = status]_vars
    /\ [](~idSeen => status = "unset" /\ attemptQueries = 0 /\ pc \notin {"poll", "query"})
    /\ []((CallRecorded /\ ~idSeen) => ~Get(results, lastName) /\ image_url = "none")

\* an image stored as failed after two submit responses without an id
C5_Witness ==
    /\ CallRecorded /\ ~idSeen /\ submits = 2 /\ request_id = "none"
    /\ lastEnd = "noid" /\ ~Get(results, lastName)

\* C6: every status query falls in exactly one of three cases.  Ready: the
\* call returns result.sample at once, or the attempt ends as failed when the
\* sample is missing, empty or cannot be read.  Processing, Queued, Pending:
\* the poll counter advances and control returns to the poll loop test.  Any
\* other status, a missing status or a raised query: the attempt ends as
\* failed.  After a response that is not in progress no further status query
\* is issued in the attempt.
C6_StatusPartition ==
    /\ [][pc = "query" =>
            CASE status' = "Ready" ->
                   IF sample' \in Urls
                   THEN pc' = "download" /\ image_url' = sample' /\ retries' = retries
                   ELSE pc' = "while" /\ retries' = retries + 1 /\ image_url' = "none"
              [] status' \in {"Processing", "Queued", "Pending"} ->
                   /\ pc' = "poll"
                   /\ poll_count' = poll_count + 1
                   /\ retries' = retries
                   /\ image_url' = "none"
              [] OTHER ->
                   pc' = "while" /\ retries' = retries + 1 /\ image_url' = "none"]_vars
    /\ [][attemptQueries' = attemptQueries + 1 =>
            attemptQueries = 0 \/ status \in {"Processing", "Queued", "Pending"}]_vars

\* polling goes on after a Pending response
C6_Witness ==
    pc = "query" /\ status = "Pending" /\ attemptQueries = 2

\* C7: an attempt issues at most 20 status queries, each after a sleep; when
\* all 20 answer in progress the attempt ends as a timeout, without an
\* exception, and the retry counter goes up by exactly one.
C7_PollBudget ==
    /\ [](attemptQueries <= 20)
    /\ [][attemptQueries' = attemptQueries + 1 => slept /\ pc = "query"]_vars
    /\ [][(pc = "poll" /\ attemptQueries = 20) =>
             /\ lastEnd' = "timeout"
             /\ retries' = retries + 1
             /\ pc' = "while"
             /\ attemptQueries' = attemptQueries]_vars
    /\ []((lastEnd = "timeout" /\ pc = "while" /\ attempts > 0) => attemptQueries = 20)

\* an attempt that timed out after 20 in-progress answers
C7_Witness ==
    /\ lastEnd = "timeout" /\ pc = "while" /\ attemptQueries = 20
    /\ status = "Queued" /\ retries = 1

\* C8: when the first attempt's submit carries an id, its status responses are
\* Queued, Processing, Ready with a URL, and the download answers 200, the
\* call issues exactly three status queries and one download, writes exactly
\* one file, named <base>_stylized_<timestamp><ext> after the input file, and
\* the image is stored as successful.
C8_HappyPath ==
    (CallRecorded /\ matched = Len(Script) /\ dlCode = 200) =>
        /\ attempts = 1 /\ submits = 1
        /\ attemptQueries = 3
        /\ downloads = 1
        /\ written = 1
        /\ <<lastName.stem, "_stylized_", clock, lastName.ext>> \in outdir
        /\ Get(results, lastName)
        /\ image_url = sample

\* the scenario has run for a file with an upper-case extension
C8_Witness ==
    /\ CallRecorded /\ matched = Len(Script) /\ dlCode = 200
    /\ lastName.ext = ".JPG" /\ Get(results, lastName)

\* C9: a call in which no status response said Ready returns None after the
\* retry budget is used up, attempts no download, and its image is stored as
\* failed; an image none of whose calls saw Ready is in the failure list.
C9_NeverReady ==
    /\ (CallRecorded /\ ~readySeen) =>
          /\ image_url = "none"
          /\ retries = max_retries + 1
          /\ downloads = 0 /\ written = 0
          /\ ~Get(results, lastName)
    /\ reported =>
          \A i \in 1..Len(input_images) :
             (\A j \in 1..Len(input_images) :
                 Basename(input_images[j]) = Basename(input_images[i]) => j \in noReadyCalls)
             => \E k \in 1..Len(failures) : failures[k] = Basename(input_images[i])

\* the report lists an image whose every attempt timed out
C9_Witness ==
    /\ reported /\ Len(input_images) = 1 /\ 1 \in noReadyCalls
    /\ lastEnd = "timeout" /\ attemptQueries = 20 /\ max_retries = 1
    /\ failures = <<Basename(input_images[1])>>

\* C10: when the call returned a URL and the download response has a status
\* other than 200, no output file is written and the image is stored as
\* failed.
C10_DownloadFailure ==
    /\ [][(pc = "download" /\ dlCode' \in {404, 500}) =>
             /\ outdir' = outdir
             /\ written' = written
             /\ ~Get(results', image_filename)]_vars
    /\ []((CallRecorded /\ lastEnd = "success" /\ dlCode # 200) =>
             written = 0 /\ ~Get(results, lastName) /\ readySeen)

\* generation succeeded, the download answered 500, the image is in the
\* failure list
C10_Witness ==
    /\ reported /\ lastEnd = "success" /\ dlCode = 500 /\ image_url = "u1"
    /\ outdir = {} /\ Len(failures) = 1

\* positions of control inside a process_image call
InCall == pc \in {"while", "submit", "poll", "query", "download"}

SubmitRaised == pc = "submit" /\ raised'
QueryRaised == pc = "query" /\ raised'
DownloadRaised == pc = "download" /\ raised'

\* C12 as stated: an exception of the submit request, of a status query or of
\* the result download is caught by the retry loop and counts as one failed
\* attempt, and the batch goes on.
C12_AllCaughtByRetry ==
    [][(SubmitRaised \/ QueryRaised \/ DownloadRaised) =>
          /\ retries' = retries + 1
          /\ pc' = "while"
          /\ stored' = stored]_vars

\* C12 amended: an exception of the submit request or of a status query is
\* caught by the retry loop and counts as one failed attempt; an exception of
\* the result download is not: it leaves the retry counter alone, is caught
\* by the driver, and the image is stored as failed with no retry and no
\* file written.  None of the three ends the batch.
C12_CaughtWhere ==
    /\ [][(SubmitRaised \/ QueryRaised) =>
             /\ retries' = retries + 1
             /\ lastEnd' = "exception"
             /\ pc' = "while"
             /\ stored' = stored]_vars
    /\ [][DownloadRaised =>
             /\ retries' = retries
             /\ attempts' = attempts
             /\ pc' = "for"
             /\ stored' = stored + 1
             /\ outdir' = outdir
             /\ ~Get(results', image_filename)]_vars
    /\ []((pc = "done" /\ input_images # <<>>) => stored = Len(input_images))

\* the download raised on the first attempt's URL and the run still reported
C12_Witness ==
    reported /\ dlCode = 0 /\ retries = 0 /\ attempts = 1 /\ Len(failures) = 1

\* the step enters the loop body and encodes the input file
EncodeStep == pc = "while" /\ attempts' = attempts + 1

\* C17 as stated: the encoding step fails only for an unreadable file; for a
\* readable one, a zero-length file included, the attempt goes on to submit.
C17_ReadableProceeds ==
    [][(EncodeStep /\ encoded' # "none") => pc' = "submit"]_vars

\* C17 amended: the encoding step fails when the file is unreadable or has
\* length zero (its base64 text is empty, which the test takes as a failure);
\* for every readable file that is not empty the attempt goes on to issue a
\* submit request.
C17_NonEmptyProceeds ==
    /\ [][EncodeStep =>
            IF encoded' = "b64"
            THEN pc' = "submit" /\ retries' = retries
            ELSE /\ pc' = "while"
                 /\ retries' = retries + 1
                 /\ lastEnd' = "encode"
                 /\ submits' = submits]_vars
    /\ [][pc = "submit" => submits' = submits + 1]_vars

\* an attempt on a zero-length file ended without a submit request
C17_Witness ==
    pc = "while" /\ encoded = "empty" /\ lastEnd = "encode" /\ retries = 1 /\ submits = 0

\* C18: a call ends: it issues at most max_retries + 1 submit requests and at
\* most 20 * (max_retries + 1) status queries in all, and every path through
\* an attempt that yields no URL (encoding failure, missing id, poll break,
\* poll timeout, exception) adds exactly one to the retry counter, which
\* nothing else changes.
C18_Terminates ==
    /\ [](submits <= max_retries + 1)
    /\ [](queries <= 20 * (max_retries + 1))
    /\ [](attempts <= max_retries + 1 /\ retries <= max_retries + 1)
    /\ [][(InCall /\ pc' = "while" /\ lastEnd' \in BudgetEnds \cup {"status"})
             => retries' = retries + 1]_vars
    /\ [][(InCall /\ retries' # retries) =>
             /\ retries' = retries + 1
             /\ pc' = "while"
             /\ lastEnd' \in BudgetEnds \cup {"status"}]_vars
    /\ [](InCall => <>(~InCall))
    /\ <>(pc = "done")

\* both attempts of a call used the whole poll budget
C18_Witness ==
    CallEnded /\ max_retries = 1 /\ queries = 40 /\ submits = 2 /\ image_url = "none"

\* ------------------------------------------------------------ the renamer
\* a run of the renamer on an existing directory has ended
RunEnded == rpc = "done" /\ rexists

\* a name of the form stalls_r<N>*.jpg, letters compared without case
NamedStallsRow(s) == RegexMatch(s) /\ RenGlobMatch(TRUE, s)

\* the destination of a source name
DestinationOf(s) == NewPrefix \o RowNumber(s) \o PatSuffix

\* the directory d holds the name s, as the file system compares names
Holds(d, s) == IF caseFold THEN \E g \in d : FoldName(g) = FoldName(s) ELSE s \in d

\* the sources of the list that share the row number of its i-th entry
GroupOf(i) ==
    { j \in 1..Len(rfiles) :
        RegexMatch(rfiles[j]) /\ RowNumber(rfiles[j]) = RowNumber(rfiles[i]) }

First(S) == CHOOSE i \in S : \A j \in S : i <= j

\* C13: after a run without rename errors, every file named
\* stalls_r<N>*.jpg (in any case) has its destination stalls_w<N>.jpg in the
\* directory and, when it was the only source of its row and the destination
\* was free, is itself gone; every other file is still there.
C13_RenamesEveryMatch ==
    (RunEnded /\ run = 1 /\ rerrs = 0) =>
        \A f \in rstart :
            IF NamedStallsRow(f)
            THEN /\ Holds(rdir, DestinationOf(f))
                 /\ (/\ ~Holds(rstart, DestinationOf(f))
                     /\ \A g \in rstart :
                          (NamedStallsRow(g) /\ RowNumber(g) = RowNumber(f)) => g = f)
                      => f \notin rdir
            ELSE f \in rdir

\* C14: an iteration whose destination already exists leaves the directory,
\* the count and the error count as they were and goes on to the next file;
\* the count is the number of files the run has renamed away.
C14_SkipExisting ==
    /\ [][(/\ rpc = "loop"
           /\ ri <= Len(rfiles)
           /\ RegexMatch(rfiles[ri])
           /\ Holds(rdir, DestinationOf(rfiles[ri])))
            => (/\ rdir' = rdir
                /\ renamed_count' = renamed_count
                /\ rerrs' = rerrs
                /\ ri' = ri + 1
                /\ rpc' = "loop")]_vars
    /\ [](rpc \in {"loop", "done"} => renamed_count = Cardinality(rstart \ rdir))

C14_Witness ==
    /\ RunEnded /\ run = 1 /\ rerrs = 0
    /\ renamed_count = 1
    /\ \E f \in rstart \cap rdir : RegexMatch(f) /\ DestinationOf(f) \in rstart
    /\ \E f \in rstart \ rdir : DestinationOf(f) \in rdir \ rstart

\* C15: after a run without rename errors on a directory that holds the
\* docstring's example source, that file is gone and the docstring's target
\* name is there.
C15_DocstringRename ==
    (RunEnded /\ run = 1 /\ rerrs = 0 /\ DocSource \in rstart) =>
        (DocSource \notin rdir /\ Holds(rdir, DocTarget))

\* what every run keeps: the number of files, and every file either under
\* its old name or under its destination, which was free
NeverOverwrites ==
    (rpc \in {"loop", "done"}) =>
        /\ Cardinality(rdir) = Cardinality(rstart)
        /\ \A f \in rstart \ rdir :
              /\ RegexMatch(f)
              /\ DestinationOf(f) \in rdir
              /\ ~Holds(rstart, DestinationOf(f))
        /\ \A g \in rdir \ rstart : \E f \in rstart \ rdir : g = DestinationOf(f)

C20_Idempotent ==
    (rpc \in {"loop", "done"} /\ run >= 2 /\ rprev.errs = 0) =>
        /\ renamed_count = 0
        /\ rerrs = 0
        /\ rdir = rprev.dir

C20_Witness ==
    /\ RunEnded /\ run = 2
    /\ rprev.errs = 0
    /\ rprev.count >= 1
    /\ \E i \in 1..Len(rfiles) : RegexMatch(rfiles[i])
    /\ renamed_count = 0

\* --------------------------------------------------- the contour generator
\* C16: when input.png is missing or unreadable the not-found error is raised
\* with no processing step done, no output written and nothing displayed, and
\* the script ends with that error uncaught.
C16_MissingInput ==
    /\ (cError = "FileNotFoundError") =>
          (cInput # "image" /\ cProcessed = 0 /\ cOut = cOut0 /\ ~cShown)
    /\ (cInput # "image" /\ cpc \notin {"idle", "start"}) =>
          /\ cError = "FileNotFoundError"
          /\ cProcessed = 0 /\ cOut = cOut0 /\ ~cShown
          /\ cpc \in {"raised", "exited"}
    /\ (cInput # "image" /\ cpc = "exited") => cExit = "traceback"

C16_Witness ==
    /\ cInput = "unreadable"
    /\ cpc = "exited"
    /\ cExit = "traceback"
    /\ cError = "FileNotFoundError"
    /\ cOut0 = "old"

====
